---- MODULE Spec2Model ----
(***************************************************************************)
(* A model of wb-cloud-agent (src/wb/cloud_agent/main.py): the start-up    *)
(* handshake, the device published on the local bus, and the poll loop     *)
(* that fetches one event, dispatches it to a handler, confirms it and     *)
(* reports the cycle's status.                                             *)
(*                                                                         *)
(* JSON values are tagged records [t, s]: t is the JSON type, s the text   *)
(* Python's str() gives for the value.  A key that is missing from an      *)
(* object is the value Absent.                                             *)
(***************************************************************************)
EXTENDS Integers, Sequences, FiniteSets, TLC

HTTP_200_OK == 200
HTTP_204_NO_CONTENT == 204

\* How many statuses the agent has no branch for, and how many distinct
\* event ids, the model draws from.
NumOtherStatuses == 1
NumEventIds == 1
MaxHwPuts == 2
MaxChunks == 3
MaxQueue == 2

\* The statuses the agent has no branch for: 500, 501, ...
OtherStatuses == {499 + k : k \in 1..NumOtherStatuses}
StatusCodes == {HTTP_200_OK, HTTP_204_NO_CONTENT} \cup OtherStatuses

(***************************************************************************)
(* JSON values and the Python operations the agent applies to them.        *)
(***************************************************************************)
J(t, s) == [t |-> t, s |-> s]
Absent == J("absent", "")
JNull == J("null", "None")
JStr(s) == J("str", s)
JNum(s) == J("num", s)
JTrue == J("bool", "True")
JFalse == J("bool", "False")

\* bool(v): the truth value Python gives a value in `if v` / `not v`.
\* dict.get of a missing key gives None, which is false.
Truthy(v) ==
    CASE v.t = "str" -> v.s # ""
      [] v.t = "num" -> v.s # "0"
      [] v.t = "bool" -> v.s = "True"
      [] v.t = "list" -> v.s # "[]"
      [] v.t = "obj" -> v.s # "{}"
      [] OTHER -> FALSE

\* str(v)
PyStr(v) == IF v.t = "absent" THEN "None" ELSE v.s

\* Whether hash(v) succeeds, as dict.get(v) needs.
Hashable(v) == v.t \notin {"list", "obj"}

\* int(v), over the status codes of the model: [ok, n].
IntOf(v) ==
    IF v.t \in {"str", "num"} /\ (\E n \in StatusCodes : ToString(n) = v.s)
    THEN [ok |-> TRUE, n |-> CHOOSE n \in StatusCodes : ToString(n) = v.s]
    \* int() of a float drops the fraction; int() of a str with one raises.
    ELSE IF v.t = "num" /\ (\E n \in StatusCodes : ToString(n) \o ".5" = v.s)
    THEN [ok |-> TRUE, n |-> CHOOSE n \in StatusCodes : ToString(n) \o ".5" = v.s]
    ELSE IF v.t = "bool"
    THEN [ok |-> TRUE, n |-> IF v.s = "True" THEN 1 ELSE 0]
    ELSE [ok |-> FALSE, n |-> 0]

(***************************************************************************)
(* JSON documents: an object with the keys the agent reads, or a value     *)
(* that is no object (isobj = FALSE).  payload is itself a value with the  *)
(* two keys the handlers read.                                             *)
(***************************************************************************)
Payload(t, s, config, activationLink) ==
    [t |-> t, s |-> s, config |-> config, activationLink |-> activationLink]
NoPayload == Payload("absent", "", Absent, Absent)

Doc(code, id, payload, activated, activationLink) ==
    [isobj |-> TRUE, code |-> code, id |-> id, payload |-> payload,
     activated |-> activated, activationLink |-> activationLink]
EmptyDoc == Doc(Absent, Absent, NoPayload, Absent, Absent)
\* A JSON array as the whole document.
ListDoc == [EmptyDoc EXCEPT !.isobj = FALSE]

Event(code, id, payload) == Doc(code, id, payload, Absent, Absent)
StartUpDoc(activated, activationLink) ==
    Doc(Absent, Absent, NoPayload, activated, activationLink)
\* What curl's -w format prints after the delimiter: {"code":"<status>"}
StatusDoc(n) == Doc(JStr(ToString(n)), Absent, NoPayload, Absent, Absent)

\* One part of curl's output after the split: valid JSON text or not.
Seg(doc) == [json |-> TRUE, doc |-> doc]
BadJson == [json |-> FALSE, doc |-> EmptyDoc]

(***************************************************************************)
(* do_curl: the outcome of subprocess.run on curl, then the split of its   *)
(* output on the delimiter and the parse of the two parts.                 *)
(* raw = [exit, parts]: exit is how the subprocess ended, parts the        *)
(* output split on "|||".  The result is [ok, data, status, err].          *)
(***************************************************************************)
Raw(exit, parts) == [exit |-> exit, parts |-> parts]
Returned(data, status) == [ok |-> TRUE, data |-> data, status |-> status, err |-> ""]
Raised(msg) == [ok |-> FALSE, data |-> EmptyDoc, status |-> 0, err |-> msg]

\* int(json.loads(split_result[1])["code"]) with the four exceptions caught
StatusOf(seg) ==
    IF ~seg.json \/ ~seg.doc.isobj \/ seg.doc.code = Absent
    THEN [ok |-> FALSE, n |-> 0]
    ELSE IntOf(seg.doc.code)

\* A fault of do_curl: the parts are not counted, the first is the body and
\* the last the status.
do_curl_AnyCount(raw) ==
    IF raw.exit # "ok" \/ Len(raw.parts) < 2 THEN Raised("Invalid data in response")
    ELSE LET data == IF raw.parts[1].json THEN raw.parts[1].doc ELSE EmptyDoc
             status == StatusOf(raw.parts[Len(raw.parts)])
         IN  IF status.ok THEN Returned(data, status.n)
             ELSE Raised("Invalid data in response")

do_curl(raw) ==
    IF raw.exit = "nonzero"
    THEN Raised("Command 'curl' returned non-zero exit status")
    ELSE IF raw.exit = "timeout"
    THEN Raised("Command 'curl' timed out after 360 seconds")
    ELSE IF Len(raw.parts) # 2
    THEN Raised("Invalid data in response")
    ELSE LET data == IF raw.parts[1].json THEN raw.parts[1].doc ELSE EmptyDoc
             status == StatusOf(raw.parts[2])
         IN  IF status.ok THEN Returned(data, status.n)
             ELSE Raised("Invalid data in response")

\* A well-formed exchange: the body, the delimiter, curl's status object.
Reply(doc, n) == Raw("ok", <<Seg(doc), Seg(StatusDoc(n))>>)
ReplySeg(seg, n) == Raw("ok", <<seg, Seg(StatusDoc(n))>>)

\* The outputs of a set of exchanges, each as the [exit, parts] do_curl reads.
Outputs(exchanges) == {Raw(x.exit, x.parts) : x \in exchanges}

(***************************************************************************)
(* Files.  open(path, "w") truncates the file before anything is written;  *)
(* file.write(v) raises TypeError unless v is a str.                       *)
(***************************************************************************)
File(text) == [exists |-> TRUE, text |-> text]
NoFile == [exists |-> FALSE, text |-> ""]

\* A link text of two lines, and the lines of a text as readline() sees them.
TwoLineLink == "https://x/y\nz"
Lines(text) ==
    IF text = "" THEN <<>>
    ELSE IF text = TwoLineLink THEN <<"https://x/y\n", "z">>
    ELSE <<text>>

\* What the environment makes fail during one handler or one write.
Faults == {"none", "open_config", "enable", "restart", "open_link"}

\* The files and the retained bus values a handler works on.
World(linkFile, frpFile, telFile, bus) ==
    [linkFile |-> linkFile, frpFile |-> frpFile, telFile |-> telFile, bus |-> bus]

\* The result of a step: the new world, the exception message ("" if none)
\* and the effects in order.
Step(w, err, log) == [w |-> w, err |-> err, log |-> log]

\* The retained topics under MQTT_PREFIX.
Topics == {"meta/name", "meta/driver", "controls/status/meta",
           "controls/activation_link/meta", "controls/status",
           "controls/activation_link"}

publish_ctrl(w, ctrl, value) == [w EXCEPT !.bus["controls/" \o ctrl] = value]

write_activation_link(link, w, fault) ==
    IF fault = "open_link"
    THEN Step(w, "[Errno 30] Read-only file system", <<>>)
    ELSE IF link.t # "str"
    THEN Step([w EXCEPT !.linkFile = File("")],
              "write() argument must be str, not " \o link.t, <<"open:link">>)
    ELSE Step(publish_ctrl([w EXCEPT !.linkFile = File(link.s)], "activation_link", link.s),
              "", <<"open:link", "write:link", "publish:activation_link">>)

read_activation_link(linkFile) ==
    IF ~linkFile.exists THEN "unknown"
    ELSE IF Lines(linkFile.text) = <<>> THEN ""
    ELSE Lines(linkFile.text)[1]

\* payload[key]: [ok, val, err]
Subscript(payload, key) ==
    IF payload.t # "obj"
    THEN [ok |-> FALSE, val |-> Absent, err |-> payload.t \o " indices must be integers"]
    ELSE IF payload[key] = Absent
    THEN [ok |-> FALSE, val |-> Absent, err |-> "'" \o key \o "'"]
    ELSE [ok |-> TRUE, val |-> payload[key], err |-> ""]

update_activation_link(payload, w, fault) ==
    LET link == Subscript(payload, "activationLink")
    IN  IF ~link.ok THEN Step(w, link.err, <<>>)
        ELSE write_activation_link(link.val, w, fault)

\* A fault of the config handlers: the file is opened to append.
update_config_Append(svc, file, payload, w, fault) ==
    LET config == Subscript(payload, "config")
        opened == [w EXCEPT ![file] = File("")]
        written == [w EXCEPT ![file] = File(w[file].text \o config.val.s)]
        link == write_activation_link(JStr("unknown"), written, fault)
        done == <<"open:" \o svc, "write:" \o svc>>
    IN  IF fault = "open_config"
        THEN Step(w, "[Errno 30] Read-only file system", <<>>)
        ELSE IF ~config.ok
        THEN Step(opened, config.err, <<"open:" \o svc>>)
        ELSE IF config.val.t # "str"
        THEN Step(opened, "write() argument must be str, not " \o config.val.t,
                  <<"open:" \o svc>>)
        ELSE IF fault = "enable"
        THEN Step(written, "Command 'systemctl enable' returned non-zero exit status",
                  done)
        ELSE IF fault = "restart"
        THEN Step(written, "Command 'systemctl restart' returned non-zero exit status",
                  done \o <<"enable:" \o svc>>)
        ELSE Step(link.w, link.err,
                  done \o <<"enable:" \o svc, "restart:" \o svc>> \o link.log)

\* A fault of the config handlers: the link is reset before the service is
\* enabled and restarted.
update_config_LinkFirst(svc, file, payload, w, fault) ==
    LET config == Subscript(payload, "config")
        opened == [w EXCEPT ![file] = File("")]
        written == [w EXCEPT ![file] = File(config.val.s)]
        link == write_activation_link(JStr("unknown"), written, fault)
        done == <<"open:" \o svc, "write:" \o svc>> \o link.log
    IN  IF fault = "open_config"
        THEN Step(w, "[Errno 30] Read-only file system", <<>>)
        ELSE IF ~config.ok
        THEN Step(opened, config.err, <<"open:" \o svc>>)
        ELSE IF config.val.t # "str"
        THEN Step(opened, "write() argument must be str, not " \o config.val.t,
                  <<"open:" \o svc>>)
        ELSE IF link.err # ""
        THEN Step(link.w, link.err, done)
        ELSE IF fault = "enable"
        THEN Step(link.w, "Command 'systemctl enable' returned non-zero exit status",
                  done)
        ELSE IF fault = "restart"
        THEN Step(link.w, "Command 'systemctl restart' returned non-zero exit status",
                  done \o <<"enable:" \o svc>>)
        ELSE Step(link.w, "", done \o <<"enable:" \o svc, "restart:" \o svc>>)

\* update_tunnel_config and update_metrics_config differ in the file and
\* the service only: svc is "frp" or "telegraf", file the field of the world.
update_config(svc, file, payload, w, fault) ==
    LET config == Subscript(payload, "config")
        opened == [w EXCEPT ![file] = File("")]
        written == [w EXCEPT ![file] = File(config.val.s)]
        link == write_activation_link(JStr("unknown"), written, fault)
        done == <<"open:" \o svc, "write:" \o svc>>
    IN  IF fault = "open_config"
        THEN Step(w, "[Errno 30] Read-only file system", <<>>)
        ELSE IF ~config.ok
        THEN Step(opened, config.err, <<"open:" \o svc>>)
        ELSE IF config.val.t # "str"
        THEN Step(opened, "write() argument must be str, not " \o config.val.t,
                  <<"open:" \o svc>>)
        ELSE IF fault = "enable"
        THEN Step(written, "Command 'systemctl enable' returned non-zero exit status",
                  done)
        ELSE IF fault = "restart"
        THEN Step(written, "Command 'systemctl restart' returned non-zero exit status",
                  done \o <<"enable:" \o svc>>)
        ELSE Step(link.w, link.err,
                  done \o <<"enable:" \o svc, "restart:" \o svc>> \o link.log)

update_tunnel_config(payload, w, fault) ==
    update_config("frp", "frpFile", payload, w, fault)

update_metrics_config(payload, w, fault) ==
    update_config("telegraf", "telFile", payload, w, fault)

HANDLERS == {"update_activation_link", "update_tunnel_config", "update_metrics_config"}

\* HANDLERS.get(code): the handler's name, or "" for None.
Lookup(code) == IF code.t = "str" /\ code.s \in HANDLERS THEN code.s ELSE ""

RunHandler(name, payload, w, fault) ==
    CASE name = "update_activation_link" -> update_activation_link(payload, w, fault)
      [] name = "update_tunnel_config" -> update_tunnel_config(payload, w, fault)
      [] name = "update_metrics_config" -> update_metrics_config(payload, w, fault)

(***************************************************************************)
(* make_event_request, in its three parts: the fetch and its status        *)
(* branches, the validation and dispatch of the event, the confirmation.   *)
(***************************************************************************)
\* A fault of the fetch: 204 is not told from the other statuses.
fetch_branch_No204(r) ==
    IF ~r.ok THEN [next |-> "raise", err |-> r.err]
    ELSE IF r.status # HTTP_200_OK
    THEN [next |-> "raise",
          err |-> "Not a 200 status while retrieving event: " \o ToString(r.status)]
    ELSE [next |-> "process", err |-> ""]

\* A fault of the fetch: every status other than 204 is taken for an event.
fetch_branch_Lenient(r) ==
    IF ~r.ok THEN [next |-> "raise", err |-> r.err]
    ELSE IF r.status = HTTP_204_NO_CONTENT THEN [next |-> "return", err |-> ""]
    ELSE [next |-> "process", err |-> ""]

\* Lines 218-225: [next, err]; next is "return", "raise" or "process".
fetch_branch(r) ==
    IF ~r.ok THEN [next |-> "raise", err |-> r.err]
    ELSE IF r.status = HTTP_204_NO_CONTENT THEN [next |-> "return", err |-> ""]
    ELSE IF r.status # HTTP_200_OK
    THEN [next |-> "raise",
          err |-> "Not a 200 status while retrieving event: " \o ToString(r.status)]
    ELSE [next |-> "process", err |-> ""]

\* event_data.get("code", "")
CodeOf(event_data) == IF event_data.code = Absent THEN JStr("") ELSE event_data.code

\* Faults of the validation: any id passes, any payload passes.
valid_event_id_Any(event_id) == TRUE
valid_payload_Any(payload) == TRUE

\* Lines 230-232: `if not event_id`, and 234-236: `if not payload`.
valid_event_id(event_id) == Truthy(event_id)
valid_payload(payload) == Truthy(payload)

\* A fault of the dispatch: what the handler raises is swallowed.
call_handler_Swallow(handler, payload, w, fault) ==
    LET h == RunHandler(handler, payload, w, fault)
    IN  Step(h.w, "",
             <<"call:" \o handler>> \o h.log \o
             (IF h.err = "" THEN <<"return:" \o handler>>
              ELSE <<"raise:" \o handler>>))

\* Lines 238-239: the handler runs; what it raises leaves make_event_request.
call_handler(handler, payload, w, fault) ==
    LET h == RunHandler(handler, payload, w, fault)
    IN  Step(h.w, h.err,
             <<"call:" \o handler>> \o h.log \o
             (IF h.err = "" THEN <<"return:" \o handler>>
              ELSE <<"raise:" \o handler>>))

\* Lines 227-243.
process_event(event_data, w, fault) ==
    IF ~event_data.isobj
    THEN Step(w, "'list' object has no attribute 'get'", <<>>)
    ELSE LET code == CodeOf(event_data)
             handler == Lookup(code)
             event_id == event_data.id
             payload == event_data.payload
             h == call_handler(handler, payload, w, fault)
         IN  IF ~Hashable(code)
             THEN Step(w, "unhashable type: '" \o code.t \o "'", <<>>)
             ELSE IF ~valid_event_id(event_id)
             THEN Step(w, "Unknown event id: " \o PyStr(event_id), <<>>)
             ELSE IF ~valid_payload(payload)
             THEN Step(w, "Empty payload", <<>>)
             ELSE IF handler # ""
             THEN Step(h.w, h.err, h.log \o (IF h.err = "" THEN <<"info">> ELSE <<>>))
             ELSE IF code.t # "str"
             THEN Step(w, "can only concatenate str (not \"" \o code.t \o "\") to str",
                       <<>>)
             ELSE Step(w, "", <<"warning:" \o code.s, "info">>)

\* A fault of the confirmation: an answer other than 204 is followed by a
\* second POST.
confirm_event_Twice(event_id, raw) ==
    LET r == do_curl(raw)
    IN  IF event_id.t # "str"
        THEN [err |-> "can only concatenate str (not \"" \o event_id.t \o "\") to str",
              endpoint |-> "", status |-> 0, log |-> <<>>]
        ELSE [status |-> r.status,
              err |-> IF ~r.ok THEN r.err
                      ELSE IF r.status # HTTP_204_NO_CONTENT
                      THEN "Not a 204 status on event confirmation: "
                           \o ToString(r.status)
                      ELSE "",
              endpoint |-> "events/" \o event_id.s \o "/confirm/",
              log |-> IF r.ok /\ r.status = HTTP_204_NO_CONTENT THEN <<"POST">>
                      ELSE <<"POST", "POST">>]

\* Lines 245-248: [err, endpoint, status, log].
confirm_event(event_id, raw) ==
    LET r == do_curl(raw)
    IN  IF event_id.t # "str"
        THEN [err |-> "can only concatenate str (not \"" \o event_id.t \o "\") to str",
              endpoint |-> "", status |-> 0, log |-> <<>>]
        ELSE [status |-> r.status,
              err |-> IF ~r.ok THEN r.err
                      ELSE IF r.status # HTTP_204_NO_CONTENT
                      THEN "Not a 204 status on event confirmation: "
                           \o ToString(r.status)
                      ELSE "",
              endpoint |-> "events/" \o event_id.s \o "/confirm/",
              log |-> <<"POST">>]

\* A fault of the handshake: `activated` is not looked at.
link_to_store_IgnoreActivated(activated, activation_link) ==
    IF ~Truthy(activation_link) THEN JStr("unknown") ELSE activation_link

\* Lines 262-265: the link the handshake stores.
link_to_store(activated, activation_link) ==
    IF Truthy(activated) \/ ~Truthy(activation_link) THEN JStr("unknown")
    ELSE activation_link

\* Lines 251-267.
make_start_up_request(raw, w, fault) ==
    LET r == do_curl(raw)
        activated == r.data.activated
        activation_link == r.data.activationLink
    IN  IF ~r.ok THEN Step(w, r.err, <<>>)
        ELSE IF r.status # HTTP_200_OK
        THEN Step(w, "Not a 200 status while making start up request: "
                     \o ToString(r.status), <<>>)
        ELSE IF ~r.data.isobj \/ activated = Absent \/ activation_link = Absent
        THEN Step(w, "Invalid response data while making start up request", <<>>)
        ELSE write_activation_link(link_to_store(activated, activation_link), w, fault)

\* Lines 183-201 and 204-210: the publishes in order, as <<topic, value>>.
publish_vdev(linkFile) ==
    << <<"meta/name", "cloud status">>,
       <<"meta/driver", "wb-cloud-agent">>,
       <<"controls/status/meta",
         "{\"type\": \"text\", \"readonly\": true, \"order\": 1, \"title\": {\"en\": \"Status\"}}">>,
       <<"controls/activation_link/meta",
         "{\"type\": \"text\", \"readonly\": true, \"order\": 2, \"title\": {\"en\": \"Link\"}}">>,
       <<"controls/status", "disconnected">>,
       <<"controls/activation_link", read_activation_link(linkFile)>> >>

remove_vdev ==
    << <<"meta/name", "">>, <<"meta/driver", "">>, <<"controls/status/meta", "">>,
       <<"controls/activation_link/meta", "">>, <<"controls/status", "">>,
       <<"controls/activation_link", "">> >>

(***************************************************************************)
(* What the cloud and the transport may answer.                            *)
(***************************************************************************)
EventCodes ==
    {Absent, JStr("update_activation_link"), JStr("update_tunnel_config"),
     JStr("update_metrics_config"), JStr("reboot"), JNum("7"), J("list", "['x']")}

\* No id, the empty id, a number as id, and the ids "42", "43", ...
EventIds ==
    {Absent, JStr(""), JNum("42")} \cup {JStr(ToString(41 + k)) : k \in 1..NumEventIds}

EventPayloads ==
    {NoPayload,
     Payload("obj", "{}", Absent, Absent),
     Payload("obj", "{'config': 'cfgA'}", JStr("cfgA"), Absent),
     Payload("obj", "{'config': 5}", JNum("5"), Absent),
     Payload("obj", "{'activationLink': 'https://x/y'}", Absent, JStr("https://x/y")),
     Payload("obj", "{'activationLink': ''}", Absent, JStr("")),
     Payload("obj", "{'activationLink': 5}", Absent, JNum("5")),
     Payload("obj", "{'x': 1}", Absent, Absent),
     Payload("str", "cfgA", Absent, Absent)}

Events == {Event(c, i, p) : c \in EventCodes, i \in EventIds, p \in EventPayloads}

SampleEvent ==
    Event(JStr("update_tunnel_config"), JStr("42"),
          Payload("obj", "{'config': 'cfgA'}", JStr("cfgA"), Absent))

\* Outputs of curl that do_curl rejects: the process failed, or the output
\* does not split in two, or its second part is no status object.
BrokenOutputs ==
    {Raw("nonzero", <<>>), Raw("timeout", <<>>),
     Raw("ok", <<BadJson>>),
     Raw("ok", <<Seg(SampleEvent), Seg(SampleEvent), Seg(StatusDoc(HTTP_200_OK))>>),
     Raw("ok", <<Seg(SampleEvent), BadJson>>),
     Raw("ok", <<Seg(SampleEvent), Seg(ListDoc)>>),
     Raw("ok", <<Seg(SampleEvent), Seg(EmptyDoc)>>),
     Raw("ok", <<Seg(SampleEvent), Seg(SampleEvent)>>)}

EventResponses ==
    Outputs(
        {Reply(e, HTTP_200_OK) : e \in Events}
        \cup {ReplySeg(BadJson, HTTP_200_OK), Reply(ListDoc, HTTP_200_OK)}
        \cup {ReplySeg(BadJson, HTTP_204_NO_CONTENT), Reply(SampleEvent, HTTP_204_NO_CONTENT)}
        \cup {Reply(d, n) : d \in {EmptyDoc, SampleEvent}, n \in OtherStatuses}
        \cup BrokenOutputs)

\* One answer for each way a cycle can go: no event, an event of each
\* handler, an unknown code, each failed validation, an unexpected status,
\* and the transport failing.
LoopResponses ==
    Outputs(
        {ReplySeg(BadJson, HTTP_204_NO_CONTENT),
         Reply(SampleEvent, HTTP_200_OK),
         Reply(Event(JStr("update_activation_link"), JStr("42"),
                     Payload("obj", "{'activationLink': 'https://x/y'}", Absent,
                             JStr("https://x/y"))), HTTP_200_OK),
         Reply(Event(JStr("update_metrics_config"), JStr("42"),
                     Payload("obj", "{'x': 1}", Absent, Absent)), HTTP_200_OK),
         Reply(Event(JStr("reboot"), JStr("42"),
                     Payload("obj", "{'x': 1}", Absent, Absent)), HTTP_200_OK),
         Reply(Event(JStr("update_tunnel_config"), Absent,
                     Payload("obj", "{'config': 'cfgA'}", JStr("cfgA"), Absent)),
               HTTP_200_OK),
         Reply(Event(JStr("update_tunnel_config"), JStr("42"), NoPayload), HTTP_200_OK),
         Reply(Event(J("list", "['x']"), JStr("42"), NoPayload), HTTP_200_OK),
         Reply(Event(JStr("reboot"), JNum("42"),
                     Payload("obj", "{'x': 1}", Absent, Absent)), HTTP_200_OK),
         Reply(ListDoc, HTTP_200_OK),
         Raw("nonzero", <<>>),
         Raw("ok", <<BadJson>>)}
        \cup {Reply(EmptyDoc, n) : n \in OtherStatuses})

ConfirmResponses ==
    Outputs(
        {ReplySeg(BadJson, n) : n \in StatusCodes} \cup {Raw("nonzero", <<>>)})

StartUpResponses ==
    Outputs(
        {Reply(StartUpDoc(a, l), HTTP_200_OK) :
            a \in {Absent, JTrue, JFalse, JNull, JStr("no")},
            l \in {Absent, JStr(""), JStr("https://x"), JStr(TwoLineLink), JNull, JNum("5")}}
        \cup {Reply(ListDoc, HTTP_200_OK), ReplySeg(BadJson, HTTP_200_OK)}
        \cup {Reply(StartUpDoc(JFalse, JStr("https://x")), n) : n \in OtherStatuses}
        \cup BrokenOutputs)

VersionResponses ==
    Outputs(
        {ReplySeg(BadJson, n) : n \in {HTTP_200_OK} \cup OtherStatuses}
        \cup {Raw("nonzero", <<>>)})

(***************************************************************************)
(* The text curl prints, lines 119-134.  stdout is a sequence of chunks,   *)
(* each the delimiter or a text without "|"; its parts after               *)
(* split("|||") are the concatenations of the chunks between delimiters.   *)
(***************************************************************************)
data_delimiter == "|||"

RECURSIVE split(_)
split(chunks) ==
    IF chunks = <<>> THEN <<"">>
    ELSE IF Head(chunks) = data_delimiter THEN <<"">> \o split(Tail(chunks))
    ELSE LET rest == split(Tail(chunks))
         IN  <<Head(chunks) \o Head(rest)>> \o Tail(rest)

EventText ==
    "{\"id\":\"42\",\"code\":\"update_tunnel_config\",\"payload\":{\"config\":\"cfgA\"}}"

\* The texts of the model: bodies and status objects, well formed or not.
CurlTexts ==
    {"{\"code\":\"200\"}", "{\"code\":\"204\"}", "{\"code\":\"500\"}",
     "{\"code\":204}", "{\"code\":204.5}", "{\"code\":\"204.5\"}",
     "{\"code\":true}", "{\"code\":null}", "{\"code\":\"ok\"}",
     "{}", "[1]", "<html>", EventText}

\* json.loads of a part: the document, or BadJson for a JSONDecodeError.
\* Two texts of the model put together are no JSON text, nor is "".
json_loads(text) ==
    CASE text = "{\"code\":\"200\"}" -> Seg(StatusDoc(200))
      [] text = "{\"code\":\"204\"}" -> Seg(StatusDoc(204))
      [] text = "{\"code\":\"500\"}" -> Seg(StatusDoc(500))
      [] text = "{\"code\":204}" -> Seg([EmptyDoc EXCEPT !.code = JNum("204")])
      [] text = "{\"code\":204.5}" -> Seg([EmptyDoc EXCEPT !.code = JNum("204.5")])
      [] text = "{\"code\":\"204.5\"}" -> Seg([EmptyDoc EXCEPT !.code = JStr("204.5")])
      [] text = "{\"code\":true}" -> Seg([EmptyDoc EXCEPT !.code = JTrue])
      [] text = "{\"code\":null}" -> Seg([EmptyDoc EXCEPT !.code = JNull])
      [] text = "{\"code\":\"ok\"}" -> Seg([EmptyDoc EXCEPT !.code = JStr("ok")])
      [] text = "{}" -> Seg(EmptyDoc)
      [] text = "[1]" -> Seg(ListDoc)
      [] text = EventText -> Seg(SampleEvent)
      [] OTHER -> BadJson

\* What do_curl works on when curl ended in `exit` having printed stdout.
Decoded(exit, stdout) ==
    LET parts == split(stdout)
    IN  Raw(exit, [i \in 1..Len(parts) |-> json_loads(parts[i])])

\* Every stdout of at most MaxChunks chunks.
CurlOutputs ==
    {[i \in 1..Len(chunks) |-> chunks[i]] :
        chunks \in UNION {[1..n -> CurlTexts \cup {data_delimiter}] : n \in 0..MaxChunks}}

(***************************************************************************)
(* The state.                                                              *)
(***************************************************************************)
VARIABLES
    pc,           \* where main() is
    daemon,       \* options.daemon
    vstep,        \* publishes done by the running publish_vdev / remove_vdev
    scoped,       \* the ExitStack with remove_vdev registered has been entered
    linkFile,     \* settings.ACTIVATION_LINK_CONFIG
    frpFile,      \* settings.FRP_CONFIG
    telFile,      \* settings.TELEGRAF_CONFIG
    bus,          \* retained value of each topic
    status_data,  \* what make_start_up_request got and returns
    event_data,   \* this cycle's fetched body
    http_status,  \* http_status of line 218, 0 before the fetch returns
    confirm_status, \* http_status of line 245, 0 before the POST returns
    exc,          \* the exception the cycle raised, "" if none
    log,          \* this cycle's effects, in order
    endpoint,     \* the endpoint of this cycle's confirmation POST, "" if none
    stdout,       \* what one-shot mode printed
    exit,         \* how the process ended: "", "return", "error", "interrupt"
    connected,    \* the MQTT client has a connection to the broker
    subscribed,   \* the broker holds the client's subscription to HW Revision
    hw_puts,      \* PUTs of the hardware revision issued by on_message so far
    hw_exc,       \* what the last on_message raised, "" if nothing
    curl_run,     \* how a curl process ended and what it printed: [exit, stdout]
    curl_result,  \* what do_curl made of curl_run
    queue         \* the cloud's events not confirmed yet, oldest first

vars == <<pc, daemon, vstep, scoped, linkFile, frpFile, telFile, bus, status_data,
          event_data, http_status, confirm_status, exc, log, endpoint, stdout, exit,
          connected, subscribed, hw_puts, hw_exc, curl_run, curl_result, queue>>

\* What main() itself reads and writes, and what only the MQTT thread does.
main == <<pc, daemon, vstep, scoped, linkFile, frpFile, telFile, bus, status_data,
          event_data, http_status, confirm_status, exc, log, endpoint, stdout, exit>>
thread == <<connected, subscribed, hw_puts, hw_exc>>
request == <<curl_run, curl_result>>
cloud == <<queue>>
others == <<thread, request, cloud>>

cycle == <<event_data, http_status, confirm_status, exc, log, endpoint>>
files == <<linkFile, frpFile, telFile>>

TheWorld == World(linkFile, frpFile, telFile, bus)

\* The files and the bus become those of world w.
Becomes(w) ==
    /\ linkFile' = w.linkFile
    /\ frpFile' = w.frpFile
    /\ telFile' = w.telFile
    /\ bus' = w.bus

\* No curl process has run yet.
NoRun == [exit |-> "", stdout |-> <<>>]
NoResult == Raised("")

Init ==
    /\ pc = "start_up"
    /\ daemon \in BOOLEAN
    /\ vstep = 0
    /\ scoped = FALSE
    /\ linkFile \in {NoFile, File("https://old")}
    /\ frpFile = NoFile
    /\ telFile = NoFile
    /\ bus = [t \in Topics |-> ""]
    /\ status_data = EmptyDoc
    /\ event_data = EmptyDoc
    /\ http_status = 0
    /\ confirm_status = 0
    /\ exc = ""
    /\ log = <<>>
    /\ endpoint = ""
    /\ stdout = ""
    /\ exit = ""
    /\ connected = FALSE
    /\ subscribed = FALSE
    /\ hw_puts = 0
    /\ hw_exc = ""
    /\ curl_run = NoRun
    /\ curl_result = NoResult
    /\ queue = <<>>

\* An exception nobody catches ends main(): line 311, 312.
Die(msg) ==
    /\ pc' = "exited"
    /\ exit' = "error"
    /\ exc' = msg

\* Line 311.
StartUp ==
    /\ pc = "start_up"
    /\ \E raw \in StartUpResponses, fault \in {"none", "open_link"} :
        LET r == make_start_up_request(raw, TheWorld, fault)
        IN  /\ Becomes(r.w)
            /\ IF r.err = ""
               THEN /\ pc' = "send_version"
                    /\ status_data' = do_curl(raw).data
                    /\ UNCHANGED <<exc, exit>>
               ELSE /\ Die(r.err)
                    /\ UNCHANGED status_data
    /\ UNCHANGED <<daemon, vstep, scoped, event_data, http_status, confirm_status, log,
                   endpoint, stdout>>
    /\ UNCHANGED others

\* Line 312: a status other than 200 is logged only.
SendAgentVersion ==
    /\ pc = "send_version"
    /\ \E raw \in VersionResponses :
        LET r == do_curl(raw)
        IN  IF r.ok
            THEN pc' = "options" /\ UNCHANGED <<exc, exit>>
            ELSE Die(r.err)
    /\ status_data' = EmptyDoc
    /\ UNCHANGED <<daemon, vstep, scoped, files, bus, event_data, http_status,
                   confirm_status, log, endpoint, stdout>>
    /\ UNCHANGED others

\* Line 150: whether open() of the link file raises under the fault.
read_raises(file, fault) == file.exists /\ fault = "open_link"

\* Lines 314-320.
OneShot ==
    /\ pc = "options"
    /\ ~daemon
    /\ \E fault \in {"none", "open_link"} :
        IF read_raises(linkFile, fault)
        THEN Die("[Errno 5] Input/output error") /\ UNCHANGED stdout
        ELSE /\ LET link == read_activation_link(linkFile)
                IN  stdout' = IF link # "unknown" THEN ">> " \o link
                              ELSE "No active link. Controller may be already connected"
             /\ pc' = "exited"
             /\ exit' = "return"
             /\ UNCHANGED exc
    /\ UNCHANGED <<daemon, vstep, scoped, files, bus, status_data, event_data,
                   http_status, confirm_status, log, endpoint>>
    /\ UNCHANGED others

\* Line 322, one publish of publish_vdev at a time; the last one reads the
\* link file first.  After the last, the ExitStack is entered and
\* remove_vdev registered (lines 324-325).
PublishVdev ==
    /\ pc \in {"options", "publish_vdev"}
    /\ daemon
    /\ \E fault \in {"none", "open_link"} :
        IF vstep + 1 = Len(publish_vdev(linkFile)) /\ read_raises(linkFile, fault)
        THEN Die("[Errno 5] Input/output error") /\ UNCHANGED <<bus, vstep, scoped>>
        ELSE /\ LET p == publish_vdev(linkFile)[vstep + 1]
                IN  bus' = [bus EXCEPT ![p[1]] = p[2]]
             /\ IF vstep + 1 = Len(publish_vdev(linkFile))
                THEN pc' = "fetch" /\ vstep' = 0 /\ scoped' = TRUE
                ELSE pc' = "publish_vdev" /\ vstep' = vstep + 1 /\ UNCHANGED scoped
             /\ UNCHANGED <<exc, exit>>
    /\ UNCHANGED <<daemon, files, status_data, event_data, http_status, confirm_status,
                   log, endpoint, stdout>>
    /\ UNCHANGED others

(***************************************************************************)
(* One poll cycle: lines 327-342.                                          *)
(***************************************************************************)
\* Lines 218-225: the GET and the branches on its status, with the answer
\* drawn from `responses`.
FetchFrom(responses) ==
    /\ pc = "fetch"
    /\ \E raw \in responses :
        LET r == do_curl(raw)
            b == fetch_branch(r)
        IN  /\ event_data' = r.data
            /\ http_status' = r.status
            /\ exc' = b.err
            /\ pc' = IF b.next = "process" THEN "process" ELSE "report"
    /\ log' = <<"GET">>
    /\ UNCHANGED <<daemon, vstep, scoped, files, bus, status_data, confirm_status,
                   endpoint, stdout, exit>>
    /\ UNCHANGED others

Fetch == FetchFrom(EventResponses)

\* The fetch with one answer of each kind.
FetchLoop == FetchFrom(LoopResponses)

\* A fault of the cycle: what the validation or the handler raises does not
\* skip the confirmation.
Process_ConfirmAnyway ==
    /\ pc = "process"
    /\ \E fault \in Faults :
        LET r == process_event(event_data, TheWorld, fault)
        IN  /\ Becomes(r.w)
            /\ exc' = r.err
            /\ log' = log \o r.log
            /\ pc' = "confirm"
    /\ UNCHANGED <<daemon, vstep, scoped, status_data, event_data, http_status,
                   confirm_status, endpoint, stdout, exit>>
    /\ UNCHANGED others

\* Lines 227-243: validation, the handler or the warning.
Process ==
    /\ pc = "process"
    /\ \E fault \in Faults :
        LET r == process_event(event_data, TheWorld, fault)
        IN  /\ Becomes(r.w)
            /\ exc' = r.err
            /\ log' = log \o r.log
            /\ pc' = IF r.err = "" THEN "confirm" ELSE "report"
    /\ UNCHANGED <<daemon, vstep, scoped, status_data, event_data, http_status,
                   confirm_status, endpoint, stdout, exit>>
    /\ UNCHANGED others

\* Lines 245-248: the confirmation POST.
Confirm ==
    /\ pc = "confirm"
    /\ \E raw \in ConfirmResponses :
        LET r == confirm_event(event_data.id, raw)
        IN  /\ exc' = r.err
            /\ endpoint' = r.endpoint
            /\ confirm_status' = r.status
            /\ log' = log \o r.log
    /\ pc' = "report"
    /\ UNCHANGED <<daemon, vstep, scoped, files, bus, status_data, event_data,
                   http_status, stdout, exit>>
    /\ UNCHANGED others

\* A fault of the report: the failure is not told.
CycleStatus_AlwaysOk(e) == "ok"

\* Lines 332-336: the status the cycle publishes.
CycleStatus(e) == IF e = "" THEN "ok" ELSE "error:" \o e

\* A fault of the loop: the exception of the cycle is reported and raised
\* again.
Report_Fatal ==
    /\ pc = "report"
    /\ bus' = publish_ctrl(TheWorld, "status", CycleStatus(exc)).bus
    /\ log' = Append(log, "publish:status")
    /\ pc' = IF exc = "" THEN "sleep" ELSE "exited"
    /\ exit' = IF exc = "" THEN exit ELSE "error"
    /\ UNCHANGED <<daemon, vstep, scoped, files, status_data, event_data, http_status,
                   confirm_status, exc, endpoint, stdout>>
    /\ UNCHANGED others

Report ==
    /\ pc = "report"
    /\ bus' = publish_ctrl(TheWorld, "status", CycleStatus(exc)).bus
    /\ log' = Append(log, "publish:status")
    /\ pc' = "sleep"
    /\ UNCHANGED <<daemon, vstep, scoped, files, status_data, event_data, http_status,
                   confirm_status, exc, endpoint, stdout, exit>>
    /\ UNCHANGED others

\* Line 342, and make_event_request's locals are gone.
Sleep ==
    /\ pc = "sleep"
    /\ pc' = "fetch"
    /\ event_data' = EmptyDoc
    /\ http_status' = 0
    /\ confirm_status' = 0
    /\ exc' = ""
    /\ log' = <<>>
    /\ endpoint' = ""
    /\ UNCHANGED <<daemon, vstep, scoped, files, bus, status_data, stdout, exit>>
    /\ UNCHANGED others

(***************************************************************************)
(* The ways out.  KeyboardInterrupt is no Exception: line 332 does not     *)
(* catch it, and it may arrive between any two steps of main().  Inside    *)
(* the with block the ExitStack runs remove_vdev on the way out; the       *)
(* locals of the interrupted calls are gone.                               *)
(***************************************************************************)
Running == {"start_up", "send_version", "options", "publish_vdev", "fetch", "process",
            "confirm", "report", "sleep"}

Interrupt ==
    /\ pc \in Running \cup {"remove_vdev"}
    /\ exit' = "interrupt"
    /\ IF scoped /\ pc # "remove_vdev"
       THEN pc' = "remove_vdev" /\ vstep' = 0
       ELSE pc' = "exited" /\ UNCHANGED vstep
    /\ event_data' = EmptyDoc
    /\ http_status' = 0
    /\ confirm_status' = 0
    /\ exc' = ""
    /\ log' = <<>>
    /\ endpoint' = ""
    /\ status_data' = EmptyDoc
    /\ UNCHANGED <<daemon, scoped, files, bus, stdout>>
    /\ UNCHANGED others

\* Lines 204-210, one publish at a time.
RemoveVdev ==
    /\ pc = "remove_vdev"
    /\ LET p == remove_vdev[vstep + 1]
       IN  bus' = [bus EXCEPT ![p[1]] = p[2]]
    /\ IF vstep + 1 = Len(remove_vdev)
       THEN pc' = "exited" /\ vstep' = 0
       ELSE pc' = "remove_vdev" /\ vstep' = vstep + 1
    /\ UNCHANGED <<daemon, scoped, files, status_data, cycle, stdout, exit>>
    /\ UNCHANGED others

Next ==
    \/ StartUp
    \/ SendAgentVersion
    \/ OneShot
    \/ PublishVdev
    \/ Fetch
    \/ Process
    \/ Confirm
    \/ Report
    \/ Sleep
    \/ Interrupt
    \/ RemoveVdev

Spec == Init /\ [][Next]_vars

\* The daemon left alone: no KeyboardInterrupt arrives, and main() goes on
\* while it has a step to take (curl, systemctl and sleep all return).  The
\* cloud answers with one answer of each kind.
NextLoop ==
    \/ StartUp
    \/ SendAgentVersion
    \/ OneShot
    \/ PublishVdev
    \/ FetchLoop
    \/ Process
    \/ Confirm
    \/ Report
    \/ Sleep

SpecLoop == Init /\ [][NextLoop]_vars /\ WF_vars(NextLoop)

(***************************************************************************)
(* The MQTT thread started at line 304: it calls on_connect after every    *)
(* connection attempt and on_message for every message of the subscribed   *)
(* topic, at any time relative to main().                                  *)
(***************************************************************************)
\* reason_code of on_connect: 0 is success, 5 stands for the refusals.
ReasonCodes == {0, 5}

\* Lines 280-285: whether on_connect subscribes.
on_connect(reason_code) == reason_code = 0

\* Lines 289-296, after the unsubscribe: what on_message raises, "" if
\* nothing.
on_message(raw) ==
    LET r == do_curl(raw)
    IN  IF ~r.ok THEN r.err
        ELSE IF r.status # HTTP_200_OK
        THEN "Not a 200 status while making update HW revision request: "
             \o ToString(r.status)
        ELSE ""

\* The client connects, or fails to, and on_connect runs.
OnConnect ==
    /\ ~connected
    /\ \E reason_code \in ReasonCodes :
        /\ connected' = (reason_code = 0)
        /\ subscribed' = (subscribed \/ on_connect(reason_code))
    /\ UNCHANGED <<main, hw_puts, hw_exc, request, cloud>>

\* The connection is lost; the broker keeps the session's subscription or
\* not.
Disconnect ==
    /\ connected
    /\ connected' = FALSE
    /\ subscribed' \in {subscribed, FALSE}
    /\ UNCHANGED <<main, hw_puts, hw_exc, request, cloud>>

\* A fault of the callback: what on_message raises reaches main() and ends
\* it.
OnMessage_Propagates ==
    /\ connected
    /\ subscribed
    /\ hw_puts < MaxHwPuts
    /\ subscribed' = FALSE
    /\ hw_puts' = hw_puts + 1
    /\ \E raw \in VersionResponses :
        /\ hw_exc' = on_message(raw)
        /\ IF on_message(raw) = "" THEN UNCHANGED <<pc, exit, exc>>
           ELSE Die(on_message(raw))
    /\ UNCHANGED <<daemon, vstep, scoped, files, bus, status_data, event_data,
                   http_status, confirm_status, log, endpoint, stdout>>
    /\ UNCHANGED <<connected, request, cloud>>

\* The broker delivers a message of the topic and on_message runs.
OnMessage ==
    /\ connected
    /\ subscribed
    /\ hw_puts < MaxHwPuts
    /\ subscribed' = FALSE
    /\ hw_puts' = hw_puts + 1
    /\ \E raw \in VersionResponses : hw_exc' = on_message(raw)
    /\ UNCHANGED <<main, connected, request, cloud>>

\* The daemon and the MQTT thread side by side, no KeyboardInterrupt.
NextBus ==
    \/ StartUp
    \/ SendAgentVersion
    \/ OneShot
    \/ PublishVdev
    \/ FetchLoop
    \/ Process
    \/ Confirm
    \/ Report
    \/ Sleep
    \/ OnConnect
    \/ Disconnect
    \/ OnMessage

SpecBus == Init /\ [][NextBus]_vars

(***************************************************************************)
(* do_curl on its own: one curl process ends, lines 83-136.                *)
(***************************************************************************)
\* curl is killed by the timeout or exits with an error (subprocess.run
\* raises and stdout is not read), or exits with 0 having printed stdout.
Curl ==
    /\ curl_run = NoRun
    /\ \E ended \in {"ok", "nonzero", "timeout"}, printed \in CurlOutputs :
        /\ ended # "ok" => printed = <<>>
        /\ curl_run' = [exit |-> ended, stdout |-> printed]
        /\ curl_result' = do_curl(Decoded(ended, printed))
    /\ UNCHANGED <<main, thread, cloud>>

SpecCurl == Init /\ [][Curl]_vars

(***************************************************************************)
(* The daemon against a cloud that keeps the events in a queue: every GET  *)
(* is answered with the oldest event not confirmed yet (204 if there is    *)
(* none), and a POST answered with 204 has removed that event.             *)
(***************************************************************************)
QueueEvents ==
    {SampleEvent,
     Event(JStr("update_activation_link"), JStr("43"),
           Payload("obj", "{'activationLink': 'https://x/y'}", Absent, JStr("https://x/y"))),
     Event(JStr("update_metrics_config"), JStr("44"),
           Payload("obj", "{'config': 'cfgB'}", JStr("cfgB"), Absent)),
     Event(JStr("reboot"), JStr("45"), Payload("obj", "{'x': 1}", Absent, Absent)),
     Event(JStr("update_tunnel_config"), Absent,
           Payload("obj", "{'config': 'cfgA'}", JStr("cfgA"), Absent)),
     Event(JStr("update_tunnel_config"), JStr(""),
           Payload("obj", "{'config': 'cfgA'}", JStr("cfgA"), Absent)),
     Event(JStr("update_metrics_config"), JStr("46"), NoPayload),
     Event(JStr("update_activation_link"), JStr("47"),
           Payload("obj", "{}", Absent, Absent)),
     Event(JStr("update_tunnel_config"), JStr("48"),
           Payload("obj", "{'x': 1}", Absent, Absent)),
     Event(JStr("update_activation_link"), JStr("49"),
           Payload("obj", "{'activationLink': 5}", Absent, JNum("5")))}

Queued == {queue[i] : i \in DOMAIN queue}

\* A command for the controller arrives at the cloud.
Enqueue ==
    /\ Len(queue) < MaxQueue
    /\ \E e \in QueueEvents : e \notin Queued /\ queue' = Append(queue, e)
    /\ UNCHANGED <<main, thread, request>>

\* What the cloud answers to the GET.
Served ==
    IF queue = <<>> THEN ReplySeg(BadJson, HTTP_204_NO_CONTENT)
    ELSE Reply(Head(queue), HTTP_200_OK)

\* Lines 218-225 with the cloud's answer, or with curl failing.
FetchQueue == FetchFrom({Served, Raw("nonzero", <<>>)})

\* Lines 245-248: the POST, which the cloud answers with 204 exactly when
\* it has removed the event.
ConfirmQueue ==
    /\ pc = "confirm"
    /\ \E raw \in ConfirmResponses :
        LET r == confirm_event(event_data.id, raw)
        IN  /\ exc' = r.err
            /\ endpoint' = r.endpoint
            /\ confirm_status' = r.status
            /\ log' = log \o r.log
            /\ queue' = IF r.err = "" /\ queue # <<>> THEN Tail(queue) ELSE queue
    /\ pc' = "report"
    /\ UNCHANGED <<daemon, vstep, scoped, files, bus, status_data, event_data,
                   http_status, stdout, exit>>
    /\ UNCHANGED <<thread, request>>

NextQueue ==
    \/ StartUp
    \/ SendAgentVersion
    \/ OneShot
    \/ PublishVdev
    \/ FetchQueue
    \/ Process
    \/ ConfirmQueue
    \/ Report
    \/ Sleep
    \/ Enqueue

SpecQueue == Init /\ [][NextQueue]_vars

(***************************************************************************)
(* Properties.                                                             *)
(***************************************************************************)
Has(tag) == \E i \in DOMAIN log : log[i] = tag
Before(a, b) == \E i, j \in DOMAIN log : i < j /\ log[i] = a /\ log[j] = b
Count(tag) == Cardinality({i \in DOMAIN log : log[i] = tag})
\* Neither a handler nor a warning nor a confirmation happened in the cycle.
OnlyFetchAndReport == \A i \in DOMAIN log : log[i] \in {"GET", "publish:status"}
\* The handler registered for the fetched event's code, "" if none.
Registered == Lookup(CodeOf(event_data))
HandlerRaised == \E h \in HANDLERS : Has("raise:" \o h)
StatusOnBus == bus["controls/status"]
\* The fetch returned 200 with a JSON object.
FetchedEvent == http_status = HTTP_200_OK /\ event_data.isobj

\* The fetched event has no id, or the empty one.
MissingId == FetchedEvent /\ event_data.id \in {Absent, JStr("")}
\* The fetched event has an id and no payload, or an empty one.
EmptyPayloadEvent ==
    FetchedEvent /\ Truthy(event_data.id) /\ ~Truthy(event_data.payload)
\* The cycle ended with a 204: on the fetch, or on the confirmation.
Succeeded ==
    http_status = HTTP_204_NO_CONTENT \/ confirm_status = HTTP_204_NO_CONTENT
InLoop == pc \in {"fetch", "process", "confirm", "report", "sleep"}
\* publish_vdev has begun.
DevicePublished == scoped \/ vstep > 0

\* C1: a confirmation POST is issued in a cycle only after the handler
\* registered for the event's code was called and returned, or when no
\* handler is registered for the code; a cycle whose handler raised issues
\* no confirmation.
C1_ConfirmOnlyAfterHandler ==
    /\ Has("POST") =>
          \/ Registered = ""
          \/ /\ Before("call:" \o Registered, "return:" \o Registered)
             /\ Before("return:" \o Registered, "POST")
    /\ HandlerRaised => ~Has("POST") /\ endpoint = "" /\ pc # "confirm"

C1_Witness ==
    /\ Has("POST")
    /\ Registered = "update_tunnel_config"
    /\ endpoint = "events/42/confirm/"

\* C2: in a cycle whose GET returned 204 no handler is called, no
\* confirmation POST is issued, and the cycle ends with status "ok".
C2_NoContentIsQuiet ==
    http_status = HTTP_204_NO_CONTENT =>
        /\ OnlyFetchAndReport
        /\ endpoint = ""
        /\ exc = ""
        /\ pc \in {"report", "sleep"}
        /\ pc = "sleep" => StatusOnBus = "ok"

C2_Witness ==
    /\ http_status = HTTP_204_NO_CONTENT
    /\ event_data = SampleEvent
    /\ pc = "sleep"
    /\ StatusOnBus = "ok"

\* C3: a fetched event (status 200) whose id is absent or empty is not
\* confirmed and no handler is called, whatever its code and payload, and
\* the cycle fails.
C3_MissingIdNeverConfirmed ==
    MissingId =>
        /\ OnlyFetchAndReport
        /\ endpoint = ""
        /\ pc # "confirm"
        /\ pc \in {"report", "sleep"} => exc # ""
        /\ pc = "sleep" => StatusOnBus # "ok"

C3_Witness ==
    /\ MissingId
    /\ Registered = "update_tunnel_config"
    /\ event_data.payload.config = JStr("cfgA")
    /\ pc = "sleep"

\* C4: a fetched event (status 200) with a non-empty id and a code that has
\* no registered handler gets a warning naming the code and a confirmation
\* POST for its id in the same cycle.
C4_UnknownCodeIsConfirmed ==
    (/\ FetchedEvent
     /\ event_data.id.t = "str" /\ event_data.id.s # ""
     /\ Registered = ""
     /\ pc \in {"report", "sleep"})
    => /\ Has("warning:" \o PyStr(CodeOf(event_data)))
       /\ Has("POST")
       /\ endpoint = "events/" \o event_data.id.s \o "/confirm/"

C6_StatusOncePerCycle ==
    /\ pc \in {"fetch", "process", "confirm", "report"} => Count("publish:status") = 0
    /\ pc = "sleep" =>
          /\ Count("publish:status") = 1
          /\ log[Len(log)] = "publish:status"
          /\ (StatusOnBus = "ok") <=> Succeeded
          /\ ~Succeeded => exc # "" /\ StatusOnBus = "error:" \o exc

C6_Witness ==
    /\ pc = "sleep"
    /\ confirm_status \in OtherStatuses
    /\ StatusOnBus = "error:Not a 204 status on event confirmation: 500"

C8_DeviceClearedOnExit ==
    pc = "exited" /\ daemon /\ DevicePublished => \A t \in Topics : bus[t] = ""

\* C9: after a start-up request that succeeded, the stored link is
\* "unknown" if `activated` is true or `activationLink` is empty, and is the
\* supplied link if `activated` is false and the link a non-empty string;
\* whatever is true in Python's sense as `activated` stores "unknown".
C9_StartUpLink ==
    pc = "send_version" =>
        LET activated == status_data.activated
            link == status_data.activationLink
        IN  /\ linkFile.exists
            /\ activated = JTrue \/ link = JStr("") => linkFile.text = "unknown"
            /\ activated = JFalse /\ link.t = "str" /\ link.s # ""
                  => linkFile.text = link.s
            /\ Truthy(activated) => linkFile.text = "unknown"

C9_Witness ==
    /\ pc = "send_version"
    /\ status_data.activated = JTrue
    /\ status_data.activationLink = JStr("https://x")
    /\ linkFile = File("unknown")

\* C10: right after a start-up request that succeeded, and right after a
\* handler that returned, read_activation_link does not give the empty
\* string.
C10_LinkNeverEmpty ==
    pc \in {"send_version", "confirm"} => read_activation_link(linkFile) # ""

LinkOnBus == bus["controls/activation_link"]

\* C11: in daemon mode, from the end of publish_vdev until remove_vdev
\* begins, whenever no write_activation_link is running (also after one that
\* failed), the control `activation_link` on the bus holds the value the
\* activation-link store gives.
C11_LinkOnBusIsStoredLink ==
    scoped /\ InLoop => LinkOnBus = read_activation_link(linkFile)

\* C12: for every payload with a `config` field and every prior state, two
\* runs of update_tunnel_config in a row with the same payload leave the
\* tunnel config file and the activation link as one run leaves them: the
\* file holds the payload's config and the link reads "unknown" after each.
C12_TunnelConfigIdempotent ==
    (/\ pc = "process"
     /\ event_data.isobj
     /\ event_data.payload.t = "obj"
     /\ event_data.payload.config # Absent)
    => LET payload == event_data.payload
           one == update_tunnel_config(payload, TheWorld, "none")
           two == update_tunnel_config(payload, one.w, "none")
       IN  /\ two.w.frpFile = one.w.frpFile
           /\ two.w.linkFile = one.w.linkFile
           /\ one.w.frpFile = File(payload.config.s)
           /\ read_activation_link(one.w.linkFile) = "unknown"
           /\ read_activation_link(two.w.linkFile) = "unknown"

\* C13: over the whole life of the process, reconnects and failed PUTs
\* included, at most one hardware-revision PUT is issued, and once the
\* first message was handled the agent is not subscribed to the topic.
C13_RevisionReportedOnce ==
    /\ hw_puts <= 1
    /\ hw_puts = 1 => ~subscribed

\* The status objects whose `code` int() turns into an integer, each with
\* that integer: a decimal string, a number (a fraction is dropped), true.
IntegerCodes ==
    {<<"{\"code\":\"200\"}", 200>>, <<"{\"code\":\"204\"}", 204>>,
     <<"{\"code\":\"500\"}", 500>>, <<"{\"code\":204}", 204>>,
     <<"{\"code\":204.5}", 204>>, <<"{\"code\":true}", 1>>}

\* C14: do_curl raises and returns nothing for every output of curl that
\* does not split on "|||" into exactly two parts, or whose second part is
\* no JSON object with a `code` that is an integer or converts to one; when
\* it returns, the status is the integer of that `code` and the body is the
\* parsed first part, or the empty object if that part is no JSON text.
C14_RequestParses ==
    curl_result # NoResult =>
        LET parts == split(curl_run.stdout)
            wellFormed ==
                /\ curl_run.exit = "ok"
                /\ Len(parts) = 2
                /\ \E c \in IntegerCodes : c[1] = parts[2]
        IN  /\ ~wellFormed =>
                  /\ ~curl_result.ok
                  /\ curl_result.status = 0
                  /\ curl_result.err # ""
            /\ curl_result.ok =>
                  /\ wellFormed
                  /\ \E c \in IntegerCodes :
                        c[1] = parts[2] /\ curl_result.status = c[2]
                  /\ curl_result.data =
                        IF parts[1] \in CurlTexts \ {"<html>"}
                        THEN json_loads(parts[1]).doc
                        ELSE EmptyDoc

\* The body is an HTML page, the status object says 204.
C14_Witness ==
    /\ curl_run.stdout = <<"<html>", data_delimiter, "{\"code\":\"204\"}">>
    /\ curl_result = Returned(EmptyDoc, HTTP_204_NO_CONTENT)

\* The positions of the cycle's log where a handler was called.
Calls == {i \in DOMAIN log : \E h \in HANDLERS : log[i] = "call:" \o h}
Posts == {i \in DOMAIN log : log[i] = "POST"}

ConfirmationFailed ==
    \E n \in StatusCodes :
        /\ n # HTTP_204_NO_CONTENT
        /\ StatusOnBus = "error:Not a 204 status on event confirmation: " \o ToString(n)

\* C16: a confirmation POST that is not answered with 204 fails the cycle
\* (status "error:..."), and what the handler did stays: neither the
\* confirmation nor the report, the sleep and the next GET change the
\* config files or the activation link.  When the cloud then serves the same
\* event again, the handler runs again and leaves the files and the link as
\* the first run left them.
C16_FailedConfirmRepeatsHandler ==
    /\ [](/\ pc \in {"report", "sleep"} /\ Has("POST") /\ confirm_status # HTTP_204_NO_CONTENT
             => exc # ""
          /\ pc = "sleep" /\ Has("POST") /\ confirm_status # HTTP_204_NO_CONTENT
             => StatusOnBus = "error:" \o exc)
    /\ [][/\ pc \in {"confirm", "report", "sleep", "fetch"}
             => UNCHANGED <<files, LinkOnBus>>
          /\ pc = "confirm" /\ pc' = "report" /\ confirm_status' # HTTP_204_NO_CONTENT
             => UNCHANGED queue
          /\ pc = "process" /\ pc' # "process" /\ ConfirmationFailed
             /\ event_data = Head(queue) =>
                /\ UNCHANGED <<files, LinkOnBus>>
                /\ Registered # "" => Has("call:" \o Registered)']_vars

\* The second run of the tunnel handler for the same event has returned.
C16_Witness ==
    /\ pc = "confirm"
    /\ StatusOnBus = "error:Not a 204 status on event confirmation: 500"
    /\ queue = <<SampleEvent>>
    /\ Has("return:update_tunnel_config")
    /\ frpFile = File("cfgA")

\* The GET of this cycle returned a status other than 200 and 204.
UnexpectedStatus == http_status \notin {0, HTTP_200_OK, HTTP_204_NO_CONTENT}

\* C17: in a cycle whose GET returned a status other than 200 and 204,
\* whatever the body, the cycle fails with "Not a 200 status while
\* retrieving event: <status>", no handler is called, no confirmation POST
\* is issued, and no step of the cycle changes the activation link (file and
\* control) or a config file.
C17_UnexpectedStatusFailsCycle ==
    /\ [](UnexpectedStatus =>
            /\ OnlyFetchAndReport
            /\ endpoint = ""
            /\ confirm_status = 0
            /\ pc \in {"report", "sleep"}
            /\ exc = "Not a 200 status while retrieving event: " \o ToString(http_status)
            /\ pc = "sleep" => StatusOnBus = "error:" \o exc)
    /\ [][UnexpectedStatus \/ UnexpectedStatus' => UNCHANGED <<files, LinkOnBus>>]_vars

\* The unexpected status came with the body of an event that has a handler.
C17_Witness ==
    /\ http_status \in OtherStatuses
    /\ event_data = SampleEvent
    /\ pc = "sleep"
    /\ StatusOnBus = "error:Not a 200 status while retrieving event: 500"

\* The service and the file of a config handler.
SvcOf(h) == IF h = "update_tunnel_config" THEN "frp" ELSE "telegraf"
FileOf(h) == IF h = "update_tunnel_config" THEN frpFile ELSE telFile
ConfigHandlers == {"update_tunnel_config", "update_metrics_config"}
\* What a cycle has done when its config handler h has returned.
ConfigSteps(h) ==
    <<"GET", "call:" \o h, "open:" \o SvcOf(h), "write:" \o SvcOf(h),
      "enable:" \o SvcOf(h), "restart:" \o SvcOf(h), "open:link", "write:link",
      "publish:activation_link", "return:" \o h, "info">>
EnableFailed == exc = "Command 'systemctl enable' returned non-zero exit status"
RestartFailed == exc = "Command 'systemctl restart' returned non-zero exit status"
\* Where in the cycle's log handler h returned or raised.
Ended(h) == CHOOSE i \in DOMAIN log : log[i] \in {"return:" \o h, "raise:" \o h}
\* payload["config"] raises: the payload is no object, or has no such key.
LacksConfig == ~Subscript(event_data.payload, "config").ok

\* C18: update_tunnel_config and update_metrics_config overwrite the config
\* file, enable the service, restart it and reset the activation link to
\* "unknown", in that order, and after a run that returned the link (file
\* and control) is "unknown".  If the payload has no `config`, or the
\* enable or the restart fails, the handler raises, no later step has run,
\* the activation link is as it was before the handler, and no
\* confirmation POST is issued.
C18_ConfigHandlerSteps ==
    /\ [](\A h \in ConfigHandlers :
            /\ Has("call:" \o h) =>
                  /\ Ended(h) \in 3..10
                  /\ SubSeq(log, 1, Ended(h) - 1) = SubSeq(ConfigSteps(h), 1, Ended(h) - 1)
            /\ Has("return:" \o h) =>
                  /\ Len(log) >= 11 /\ SubSeq(log, 1, 11) = ConfigSteps(h)
                  /\ read_activation_link(linkFile) = "unknown"
                  /\ LinkOnBus = "unknown"
                  /\ FileOf(h) = File(event_data.payload.config.s)
            /\ Has("call:" \o h) /\ LacksConfig =>
                  Has("raise:" \o h) /\ ~Has("write:" \o SvcOf(h))
            /\ Has("call:" \o h) /\ EnableFailed =>
                  Has("raise:" \o h) /\ Ended(h) = 5
            /\ Has("call:" \o h) /\ RestartFailed =>
                  Has("raise:" \o h) /\ Ended(h) = 6
            /\ Has("raise:" \o h) =>
                  /\ ~Has("open:link") /\ ~Has("publish:activation_link")
                  /\ ~Has("POST") /\ endpoint = "" /\ confirm_status = 0
                  /\ pc \in {"report", "sleep"}
                  /\ exc # ""
                  /\ pc = "sleep" => StatusOnBus = "error:" \o exc)
    /\ [][\A h \in ConfigHandlers :
            Has("raise:" \o h)' => UNCHANGED <<linkFile, LinkOnBus>>]_vars

\* The restart of the tunnel service failed: the new config is in the file
\* and the link the start-up request stored is still there.
C18_Witness ==
    /\ pc = "sleep"
    /\ Has("raise:update_tunnel_config")
    /\ RestartFailed
    /\ frpFile = File("cfgA")
    /\ linkFile = File("https://x")
    /\ LinkOnBus = "https://x"

\* Event e fails the validation, or has a handler that raises whatever the
\* environment does.
Poison(e) ==
    \/ ~valid_event_id(e.id)
    \/ ~valid_payload(e.payload)
    \/ /\ Lookup(CodeOf(e)) # ""
       /\ \A fault \in Faults :
              RunHandler(Lookup(CodeOf(e)), e.payload, TheWorld, fault).err # ""
\* The oldest unconfirmed event of the cloud is such an event.
Blocked == queue # <<>> /\ Poison(Head(queue))
\* This cycle's GET was issued with that event the oldest, and was answered
\* or failed.
BlockedCycle ==
    Blocked /\ Has("GET") /\ (event_data = Head(queue) \/ http_status = 0)

\* C19: with a cloud that serves the oldest unconfirmed event on every
\* poll, an event with an absent or empty id, an absent or empty payload,
\* or a handler that always raises stays the oldest unconfirmed event for
\* ever: every GET answered while it is there returns it, every cycle that
\* polled it ends with status "error:..." and no confirmation POST, and
\* what a cycle handles is never an event queued behind it.
C19_PoisonEventBlocksQueue ==
    /\ [](/\ pc = "confirm" => queue # <<>> /\ event_data = Head(queue) /\ ~Blocked
          /\ BlockedCycle /\ pc # "fetch" =>
                /\ ~Has("POST") /\ endpoint = "" /\ confirm_status = 0
                /\ \A h \in HANDLERS : ~Has("return:" \o h)
                /\ pc \in {"report", "sleep"} => exc # ""
                /\ pc = "sleep" => StatusOnBus = "error:" \o exc /\ StatusOnBus # "ok")
    /\ [][/\ Blocked => queue' # <<>> /\ Head(queue') = Head(queue)
          /\ Blocked /\ pc = "fetch" /\ pc' # "fetch" =>
                \/ pc' = "process" /\ event_data' = Head(queue)
                \/ pc' = "report" /\ http_status' = 0 /\ exc' # ""
          /\ Blocked /\ pc = "process" /\ pc' # "process" =>
                /\ event_data = Head(queue)
                /\ pc' = "report" /\ exc' # ""]_vars

\* The event without payload has been polled a second time, with an event
\* of the tunnel handler queued behind it.
C19_Witness ==
    /\ queue = <<Event(JStr("update_metrics_config"), JStr("46"), NoPayload), SampleEvent>>
    /\ pc = "process"
    /\ event_data = Head(queue)
    /\ StatusOnBus = "error:Empty payload"
    /\ frpFile = NoFile

\* What on_message raises when the PUT is not answered with 200.
RevisionErrors ==
    {"Not a 200 status while making update HW revision request: " \o ToString(n) :
        n \in StatusCodes}

\* C20: however the hardware-revision callback and on_connect interleave
\* with main(), a step of the MQTT thread changes nothing but the
\* subscription, the count of PUTs and what the callback raised: not the
\* activation link, not the config files, not the published status, not
\* where main() is.  After a callback that failed the poll loop goes on,
\* the failure of the callback is never the failure of a cycle, and every
\* cycle publishes the status of its own outcome.
C20_CallbackLeavesLoopAlone ==
    /\ [](/\ scoped => InLoop /\ exit = ""
          /\ exc \notin RevisionErrors
          /\ \A e \in RevisionErrors : StatusOnBus # "error:" \o e
          /\ pc = "sleep" => StatusOnBus = CycleStatus(exc)
          /\ pc = "sleep" => ((StatusOnBus = "ok") <=> Succeeded))
    /\ [][/\ thread' # thread => UNCHANGED main
          /\ hw_exc' # hw_exc =>
                /\ hw_puts' = hw_puts + 1
                /\ subscribed /\ ~subscribed'
                /\ UNCHANGED <<files, bus, pc, exit, cycle>>]_vars

\* The PUT of the callback was answered with 500, and a poll cycle has
\* ended with "ok".
C20_Witness ==
    /\ hw_exc = "Not a 200 status while making update HW revision request: 500"
    /\ hw_puts = 1
    /\ ~subscribed
    /\ pc = "sleep"
    /\ StatusOnBus = "ok"
====
